---- MODULE Spec2Model ----
(***************************************************************************)
(* The session execution engine of src/src/durable-objects/session.ts      *)
(* (class SessionDurableObject, the variant src/src/index.ts imports):     *)
(* the per-session state machine, the action queue between the planner     *)
(* and the polling browser client, and the detached planning cycles.       *)
(*                                                                         *)
(* JavaScript runs one turn at a time.  A handler's awaits are storage     *)
(* operations, during which the durable object delivers no other event,    *)
(* so every ingress handler is one atomic action.  planNextStep suspends   *)
(* only in `await this.coordinator.runPlanner(...)` (the LLM call and its  *)
(* retries): the part before it runs inside the action that calls          *)
(* planNextStep, the part after it is the action PlannerReturns or         *)
(* PlannerThrows.                                                          *)
(***************************************************************************)
EXTENDS Integers, Sequences, FiniteSets, Bags, TLC

\* config.maxSteps of the modelled session (DEFAULT_CONFIG sets 50).
MaxSteps == 2
\* Bound on the number of tasks a run creates (execute and follow-up).
MaxTasks == 2
\* Bound on the number of action-result submissions of a run.
MaxResults == 1
\* config.maxFailures of the modelled session: the number of consecutive
\* failed action-results after which the task is to be failed.
MaxFailures == 1

\* The action vocabulary the planner draws nextAction.type from.
ActionTypes == {"click"}

\* parsed.nextAction when the LLM's JSON has no nextAction field.
Undefined == [type |-> "undefined", id |-> 0]
\* The literal { type: 'unknown', params: {} } of handleActionResult.
UnknownAction == [type |-> "unknown", id |-> 0]
\* No action: the client holds nothing.
NoAction == [type |-> "none", id |-> 0]

TerminalStates == {"completed", "error"}
TerminalStatuses == {"completed", "failed", "cancelled"}

VARIABLES
    sessionState,   \* this.sessionState: tasks, currentTaskIndex, stepCount,
                    \* executionState, actionHistory, metrics, and the
                    \* length of plannerHistory
    actionQueue,    \* this.actionQueue
    coordinator,    \* this.coordinator # null
    pending,        \* the bag of planNextStep calls suspended in runPlanner
    delivered,      \* the actions the client received from next-action, in order
    inFlight,       \* the action the last poll delivered, until its result is posted
    resultCount,    \* the number of action-result submissions processed
    retry,          \* one run of RetryExecutor.executeWithRetry: the operation
                    \* it was given, its locals and how it ended
    errorCase,      \* one error handed to the error-handling functions, and
                    \* what they made of it
    backoffCase,    \* one call of calculateBackoff: its arguments and result
    bus,            \* this.eventListeners and the event streams they write to
    sanitizeCase,   \* one text handed to the sanitizer, and what came of it
    router,         \* the worker's routes and the namespace of session objects
    vocabCase,      \* one planner response on its way through the action
                    \* queue of a session with a given toolsEnabled
    loop            \* the session of src/session.ts, whose executeTask loop
                    \* runs the planner and the navigator

vars == <<sessionState, actionQueue, coordinator, pending, delivered, inFlight,
          resultCount, retry, errorCase, backoffCase, bus, sanitizeCase,
          router, vocabCase, loop>>

\* The variables of the session, and those of the error-handling utilities.
sessionVars == <<sessionState, actionQueue, coordinator, pending, delivered,
                 inFlight, resultCount>>
otherVars == <<router, vocabCase, loop>>
utilVars == <<retry, errorCase, backoffCase, bus, sanitizeCase, otherVars>>

----------------------------------------------------------------------------
\* Error handling: src/unnamed/part_002, which the coordinator imports as
\* utils/error-handling.

\* The values of ErrorCategory.
ErrorCategories ==
    {"recoverable", "user_input_required", "fatal", "timeout", "rate_limit",
     "network"}

\* The substrings categorizeError looks for.  None of them is a substring of
\* another, so a message may contain any combination of them.
Triggers ==
    {"rate limit", "429", "network", "timeout", "econnrefused", "fetch failed",
     "timed out", "captcha", "verification", "login required",
     "authentication", "forbidden", "unauthorized", "invalid session",
     "not found"}

\* Bound on the number of trigger occurrences in a message.
MaxOccurrences == 2

\* An error message, as far as categorizeError can tell messages apart: the
\* set of the trigger occurrences in it, each written in lower case
\* ("timeout") or with upper-case letters ("Timeout", "TIMEOUT").
Occurrences == [text : Triggers, upper : BOOLEAN]

RECURSIVE MessagesUpTo(_)
MessagesUpTo(n) ==
    IF n = 0 THEN {{}}
    ELSE LET shorter == MessagesUpTo(n - 1)
         IN shorter \cup {m \cup {o} : m \in shorter, o \in Occurrences}

Messages == MessagesUpTo(MaxOccurrences)

\* String.prototype.toLowerCase: every occurrence becomes a lower-case one.
ToLowerCase(message) ==
    {[text |-> o.text, upper |-> FALSE] : o \in message}

\* String.prototype.includes with a lower-case literal: case-sensitive.
Includes(message, literal) ==
    [text |-> literal, upper |-> FALSE] \in message

\* The optional second argument of categorizeError: absent, or an object
\* whose `critical` is truthy or not.
Contexts ==
    {[present |-> FALSE, critical |-> FALSE],
     [present |-> TRUE, critical |-> FALSE],
     [present |-> TRUE, critical |-> TRUE]}

NoContext == [present |-> FALSE, critical |-> FALSE]

\* categorizeError: the first test, in the order of the code, that the
\* lower-cased message passes.
CategorizeError(error, context) ==
    LET message == ToLowerCase(error.message)
    IN IF Includes(message, "rate limit") \/ Includes(message, "429")
       THEN "rate_limit"
       ELSE IF \/ Includes(message, "network")
               \/ Includes(message, "timeout")
               \/ Includes(message, "econnrefused")
               \/ Includes(message, "fetch failed")
       THEN "network"
       ELSE IF Includes(message, "timeout") \/ Includes(message, "timed out")
       THEN "timeout"
       ELSE IF \/ Includes(message, "captcha")
               \/ Includes(message, "verification")
               \/ Includes(message, "login required")
               \/ Includes(message, "authentication")
       THEN "user_input_required"
       ELSE IF \/ Includes(message, "forbidden")
               \/ Includes(message, "unauthorized")
               \/ Includes(message, "invalid session")
               \/ (Includes(message, "not found")
                   /\ context.present /\ context.critical)
       THEN "fatal"
       ELSE "recoverable"

\* buildErrorContext.  It calls categorizeError without a context.  (step,
\* action, originalError and suggestedAction are left out: nothing modelled
\* reads them.)
BuildErrorContext(error) ==
    LET category == CategorizeError(error, NoContext)
    IN [category |-> category,
        message |-> error.message,
        retryable |-> category # "fatal",
        userActionRequired |->
            IF category = "user_input_required"
            THEN "Please complete the required verification (CAPTCHA, login, etc.)"
            ELSE "undefined"]

DEFAULT_RETRY_STRATEGY ==
    [maxRetries |-> 3,
     backoffMs |-> 1000,
     backoffMultiplier |-> 2,
     maxBackoffMs |-> 30000,
     retryableCategories |-> {"recoverable", "network", "timeout", "rate_limit"}]

Min(a, b) == IF a <= b THEN a ELSE b

\* A calculateBackoff without the cap.
CalculateBackoffUncapped(attempt, strategy) ==
    strategy.backoffMs * strategy.backoffMultiplier ^ (attempt - 1)

\* calculateBackoff, in milliseconds.  For attempt 0 Math.pow gives
\* multiplier^-1, and backoffMs is a multiple of the multiplier.
CalculateBackoff(attempt, strategy) ==
    LET backoff == IF attempt >= 1
                   THEN strategy.backoffMs
                          * strategy.backoffMultiplier ^ (attempt - 1)
                   ELSE strategy.backoffMs
                          \div strategy.backoffMultiplier ^ (1 - attempt)
    IN Min(backoff, strategy.maxBackoffMs)

\* An isRetryable that goes by the context's retryable flag alone.
IsRetryableByFlag(errorContext, strategy) ==
    errorContext.retryable

\* isRetryable.
IsRetryable(errorContext, strategy) ==
    /\ errorContext.retryable
    /\ errorContext.category \in strategy.retryableCategories

\* determineRecoveryAction.  A RecoveryAction without a delay has delay -1.
DetermineRecoveryAction(errorContext, currentAttempt, maxAttempts) ==
    LET category == errorContext.category
        delay == CalculateBackoff(currentAttempt, DEFAULT_RETRY_STRATEGY)
    IN IF category = "fatal"
       THEN [type |-> "abort", delay |-> -1, message |-> "Fatal error"]
       ELSE IF category = "user_input_required"
       THEN [type |-> "pause", delay |-> -1,
             message |-> IF errorContext.userActionRequired # "undefined"
                         THEN errorContext.userActionRequired
                         ELSE "User action required"]
       ELSE IF category = "rate_limit"
       THEN IF currentAttempt < maxAttempts
            THEN [type |-> "retry", delay |-> delay,
                  message |-> "Rate limit hit, waiting before retry"]
            ELSE [type |-> "abort", delay |-> -1,
                  message |-> "Rate limit retry attempts exhausted"]
       ELSE IF category = "timeout"
       THEN IF currentAttempt < maxAttempts
            THEN [type |-> "retry", delay |-> delay,
                  message |-> "Timeout occurred, retrying with increased timeout"]
            ELSE [type |-> "ask_user", delay |-> -1,
                  message |-> "Task is taking longer than expected. Continue?"]
       ELSE IF category = "network"
       THEN IF currentAttempt < maxAttempts
            THEN [type |-> "retry", delay |-> delay,
                  message |-> "Network error, retrying"]
            ELSE [type |-> "abort", delay |-> -1,
                  message |-> "Network error retry attempts exhausted"]
       ELSE IF category = "recoverable"
       THEN IF currentAttempt < maxAttempts
            THEN [type |-> "retry", delay |-> delay,
                  message |-> "Recoverable error, retrying"]
            ELSE [type |-> "skip", delay |-> -1,
                  message |-> "Skipping failed action and continuing"]
       ELSE [type |-> "abort", delay |-> -1,
             message |-> "Unknown error category"]

\* One error case: an error and the arguments the functions are called
\* with, then the results of the calls made so far.
MaxAttempts == 2

NoErrorContext ==
    [category |-> "none", message |-> {}, retryable |-> FALSE,
     userActionRequired |-> "undefined"]

NoRecovery == [type |-> "none", delay |-> -1, message |-> "none"]

ErrorCase(message, context, currentAttempt, maxAttempts) ==
    [error |-> [message |-> message],
     context |-> context,
     currentAttempt |-> currentAttempt,
     maxAttempts |-> maxAttempts,
     category |-> "none",
     errorContext |-> NoErrorContext,
     recovery |-> NoRecovery]

\* The session model hands no error to these functions.
NoErrorCase == ErrorCase({}, NoContext, 0, 0)

\* categorizeError(error, context) is called.
Categorize ==
    /\ errorCase.category = "none"
    /\ errorCase' = [errorCase EXCEPT
                       !.category = CategorizeError(errorCase.error,
                                                    errorCase.context)]
    /\ UNCHANGED <<sessionVars, retry, backoffCase, bus, sanitizeCase, otherVars>>

\* buildErrorContext(error, step) is called.
BuildContext ==
    /\ errorCase.errorContext = NoErrorContext
    /\ errorCase' = [errorCase EXCEPT
                       !.errorContext = BuildErrorContext(errorCase.error)]
    /\ UNCHANGED <<sessionVars, retry, backoffCase, bus, sanitizeCase, otherVars>>

\* determineRecoveryAction is called with the context built.
DetermineRecovery ==
    /\ errorCase.errorContext # NoErrorContext
    /\ errorCase.recovery = NoRecovery
    /\ errorCase' = [errorCase EXCEPT
                       !.recovery = DetermineRecoveryAction(
                                        errorCase.errorContext,
                                        errorCase.currentAttempt,
                                        errorCase.maxAttempts)]
    /\ UNCHANGED <<sessionVars, retry, backoffCase, bus, sanitizeCase, otherVars>>

\* What one invocation of the operation passed to executeWithRetry does: it
\* resolves, or it rejects with an Error of some message.
Succeeds == [ok |-> TRUE, message |-> {}]
Fails(message) == [ok |-> FALSE, message |-> message]

\* The messages the operations of the model reject with: one of every
\* category (the empty one has no trigger in it).
RetryMessages ==
    {{}} \cup {{[text |-> t, upper |-> FALSE]} :
                  t \in {"429", "network", "timed out", "captcha", "forbidden"}}

\* An operation is given by what its successive invocations do, one more of
\* them than the strategy has retries.
Operations ==
    [1..(DEFAULT_RETRY_STRATEGY.maxRetries + 1) ->
        {Succeeds} \cup {Fails(m) : m \in RetryMessages}]

NoResult ==
    [kind |-> "none", call |-> 0, category |-> "none", why |-> "none"]

\* executeWithRetry(operation, context) at its start: attempt = 0.  calls
\* counts the invocations of the operation, waits lists the backoff delays.
\* llmCalls is metrics.llmCalls counted from the start of the run, for the
\* run that runPlanner makes with executePlanner as the operation.
RetryRun(operation) ==
    [operation |-> operation, pc |-> "loop", attempt |-> 0, calls |-> 0,
     waits |-> <<>>, result |-> NoResult, llmCalls |-> 0]

\* The session model runs the planner without looking into its retries.
NoRetryRun == [RetryRun(<<>>) EXCEPT !.pc = "idle"]

\* One iteration of the while loop of executeWithRetry, from the call of the
\* operation to the return, the throw or the backoff wait.
ExecuteWithRetryStep(run, strategy) ==
    LET outcome == run.operation[run.calls + 1]
        called == [run EXCEPT !.calls = @ + 1]
    IN IF outcome.ok
       THEN [called EXCEPT
               !.pc = "done",
               !.result = [kind |-> "returned", call |-> called.calls,
                           category |-> "none", why |-> "none"]]
       ELSE LET attempt == run.attempt + 1
                errorContext == BuildErrorContext([message |-> outcome.message])
            IN IF ~IsRetryable(errorContext, strategy)
               THEN [called EXCEPT
                       !.attempt = attempt,
                       !.pc = "done",
                       !.result = [kind |-> "thrown", call |-> called.calls,
                                   category |-> errorContext.category,
                                   why |-> "Non-retryable error"]]
               ELSE IF attempt >= strategy.maxRetries
               THEN [called EXCEPT
                       !.attempt = attempt,
                       !.pc = "done",
                       !.result = [kind |-> "thrown", call |-> called.calls,
                                   category |-> errorContext.category,
                                   why |-> "Max retries exceeded"]]
               ELSE [called EXCEPT
                       !.attempt = attempt,
                       !.pc = "waiting",
                       !.waits = Append(@, CalculateBackoff(attempt, strategy))]

\* The loop of executeWithRetry runs one iteration.  With maxRetries > 0 the
\* loop condition holds whenever control reaches it: a failed attempt that
\* reaches maxRetries throws before the wait.
OperationCalled ==
    /\ retry.pc = "loop"
    /\ retry.attempt < DEFAULT_RETRY_STRATEGY.maxRetries
    /\ retry.calls < Len(retry.operation)
    /\ retry' = ExecuteWithRetryStep(retry, DEFAULT_RETRY_STRATEGY)
    /\ UNCHANGED <<sessionVars, errorCase, backoffCase, bus, sanitizeCase, otherVars>>

\* runPlanner's finally block, once executeWithRetry has returned or thrown:
\* metrics.llmCalls++.
RunPlannerFinally ==
    /\ retry.pc = "done"
    /\ retry' = [retry EXCEPT !.pc = "settled", !.llmCalls = @ + 1]
    /\ UNCHANGED <<sessionVars, errorCase, backoffCase, bus, sanitizeCase, otherVars>>

\* The setTimeout of the backoff fires.
BackoffElapses ==
    /\ retry.pc = "waiting"
    /\ retry' = [retry EXCEPT !.pc = "loop"]
    /\ UNCHANGED <<sessionVars, errorCase, backoffCase, bus, sanitizeCase, otherVars>>

----------------------------------------------------------------------------
\* calculateBackoff over retry strategies.  handleInit spreads the request's
\* config over DEFAULT_CONFIG without validating it, so the retry strategy of
\* a session is whatever RetryStrategy the client sent.

\* Bound on maxRetries of the strategies tried.
MaxRetriesTried == 3

\* The strategies tried: delays in milliseconds around the default base.
Strategies ==
    [maxRetries : 1..MaxRetriesTried,
     backoffMs : {1000, 2000},
     backoffMultiplier : {1, 2, 3},
     maxBackoffMs : {500, 1000, 3000, 30000},
     retryableCategories : {DEFAULT_RETRY_STRATEGY.retryableCategories}]

BackoffCase(strategy, attempt) ==
    [strategy |-> strategy, attempt |-> attempt, backoff |-> -1]

NoBackoffCase == BackoffCase(DEFAULT_RETRY_STRATEGY, 0)

\* calculateBackoff(attempt, strategy) is called, as executeWithRetry calls it
\* before a wait.
Backoff ==
    /\ backoffCase.attempt >= 1
    /\ backoffCase.backoff = -1
    /\ backoffCase' = [backoffCase EXCEPT
                         !.backoff = CalculateBackoff(backoffCase.attempt,
                                                      backoffCase.strategy)]
    /\ UNCHANGED <<sessionVars, retry, errorCase, bus, sanitizeCase, otherVars>>

----------------------------------------------------------------------------
\* The event bus: handleEventStream and emitEvent of the session.

\* Bound on the number of /events requests, and on the events emitted.
MaxSubscribers == 2
MaxEvents == 3

\* Every /events request creates one listener closure and one stream.
Subscribers == 1..MaxSubscribers

EventTypes == {"plan_generated", "task_complete"}

\* No listener yet, nothing emitted.  log is the sequence of the events
\* emitted so far, each with its emission number; since[l] is the length of
\* the log when listener l subscribed (-1 before that); open is the set of the
\* streams whose client is still connected.
NoBus ==
    [eventListeners |-> {},
     streams |-> [l \in Subscribers |-> <<>>],
     since |-> [l \in Subscribers |-> -1],
     open |-> Subscribers,
     log |-> <<>>]

\* A handleEventStream that first replays the events emitted so far.
SubscribeWithHistory(b, l) ==
    [b EXCEPT !.eventListeners = @ \cup {l},
              !.since[l] = Len(b.log),
              !.streams[l] = b.log]

\* handleEventStream: a new stream and a listener that writes to it.
Subscribe(b, l) ==
    [b EXCEPT !.eventListeners = @ \cup {l},
              !.since[l] = Len(b.log)]

\* An emitEvent that gives up at the first listener whose write fails: the
\* listeners after it (in the order they subscribed) do not get the event.
EmitEventUntilFailure(b, type) ==
    LET event == [seq |-> Len(b.log) + 1, type |-> type]
        failed == b.eventListeners \ b.open
    IN [b EXCEPT
          !.log = Append(@, event),
          !.streams = [l \in Subscribers |->
                          IF /\ l \in b.eventListeners
                             /\ l \in b.open
                             /\ \A f \in failed : b.since[l] < b.since[f]
                          THEN Append(b.streams[l], event)
                          ELSE b.streams[l]],
          !.eventListeners = @ \cap b.open]

\* emitEvent: every listener writes the event to its stream.  Writes to a
\* stream are queued in call order.  The write to a stream whose client is
\* gone rejects, and the listener's catch handler deletes the listener.
EmitEvent(b, type) ==
    LET event == [seq |-> Len(b.log) + 1, type |-> type]
    IN [b EXCEPT
          !.log = Append(@, event),
          !.streams = [l \in Subscribers |->
                          IF l \in b.eventListeners /\ l \in b.open
                          THEN Append(b.streams[l], event)
                          ELSE b.streams[l]],
          !.eventListeners = @ \cap b.open]

\* GET /events.
HandleEventStream(l) ==
    /\ bus.since[l] = -1
    /\ bus' = Subscribe(bus, l)
    /\ UNCHANGED <<sessionVars, retry, errorCase, backoffCase, sanitizeCase, otherVars>>

\* Some handler or planning cycle calls emitEvent.
Emit(type) ==
    /\ Len(bus.log) < MaxEvents
    /\ bus' = EmitEvent(bus, type)
    /\ UNCHANGED <<sessionVars, retry, errorCase, backoffCase, sanitizeCase, otherVars>>

\* The client of stream l goes away.
ClientDisconnects(l) ==
    /\ bus.since[l] # -1
    /\ l \in bus.open
    /\ bus' = [bus EXCEPT !.open = @ \ {l}]
    /\ UNCHANGED <<sessionVars, retry, errorCase, backoffCase, sanitizeCase, otherVars>>

----------------------------------------------------------------------------
\* The sanitizer of src/unnamed/part_000 (security/guardrails) and the
\* coordinator's sanitizeExternalContent.
\*
\* A text is a sequence of fragments, written one after the other without a
\* separator.  The fragments are chosen so that, in any text made of them,
\* only three of the patterns can match: the first task_override pattern
\* (/\bignore\s+(all\s+)?(previous|...)\s+(instructions?|...)/gi) matches
\* "ig" directly followed by "nore previous instructions" at a word boundary,
\* the fake-system-tag pattern (/<\/?nano_[a-z_]+>/gi) matches "<nano_a>",
\* and the strict phone pattern matches the digits of " 555-123-4567 ".
IG == "ig"
NORE == "nore previous instructions"
TAG == "<nano_a>"
ZWSP == "U+200B"
EMPTY == "<b></b>"
PHONE == " 555-123-4567 "

Fragments == {IG, NORE, TAG, ZWSP, EMPTY, PHONE}

\* What the replacements leave in the text.
BLOCKED == "[BLOCKED_OVERRIDE_ATTEMPT]"
REDACTED == " [REDACTED_PHONE] "

\* Bound on the number of fragments of a text.
MaxTextLen == 3

Texts == UNION {[1..n -> Fragments] : n \in 0..MaxTextLen}

\* The fragments whose last character is a word character (\b does not hold
\* between them and a following letter).
EndsInWordChar(f) == f \in {IG, NORE}

\* normalizeText: zero-width characters are removed.  (Collapsing runs of
\* blanks changes no match in a text of these fragments.)
NormalizeText(text) ==
    SelectSeq(text, LAMBDA f : f # ZWSP)

\* The task_override pattern matches at fragment i.
OverrideAt(text, i) ==
    /\ i < Len(text)
    /\ text[i] = IG
    /\ text[i + 1] = NORE
    /\ i = 1 \/ ~EndsInWordChar(text[i - 1])

OverrideMatches(text) == \E i \in 1..Len(text) : OverrideAt(text, i)
TagMatches(text) == \E i \in 1..Len(text) : text[i] = TAG
PhoneMatches(text) == \E i \in 1..Len(text) : text[i] = PHONE

\* String.prototype.replace with the global task_override pattern: the
\* matches of the text as it is, left to right, each replaced once.
RECURSIVE ReplaceOverrideFrom(_, _)
ReplaceOverrideFrom(text, i) ==
    IF i > Len(text) THEN <<>>
    ELSE IF OverrideAt(text, i)
    THEN <<BLOCKED>> \o ReplaceOverrideFrom(text, i + 2)
    ELSE <<text[i]>> \o ReplaceOverrideFrom(text, i + 1)

ReplaceOverride(text) == ReplaceOverrideFrom(text, 1)

\* replace with the fake-tag pattern: the replacement is the empty string.
RemoveTags(text) ==
    SelectSeq(text, LAMBDA f : f # TAG)

\* replace with the strict phone pattern.
RedactPhones(text) ==
    [i \in 1..Len(text) |-> IF text[i] = PHONE THEN REDACTED ELSE text[i]]

\* cleanEmptyTags: empty element pairs are removed.
CleanEmptyTags(text) ==
    SelectSeq(text, LAMBDA f : f # EMPTY)

SeverityOrder == [low |-> 0, medium |-> 1, high |-> 2, critical |-> 3]

MaxSeverity(a, b) == IF SeverityOrder[b] > SeverityOrder[a] THEN b ELSE a

\* One pattern of sanitizeContent's loops applied to the result so far.
ApplyPattern(r, matches, replaced, type, severity) ==
    IF matches
    THEN [sanitized |-> replaced,
          threats |-> IF \E k \in 1..Len(r.threats) : r.threats[k] = type
                      THEN r.threats ELSE Append(r.threats, type),
          modified |-> TRUE,
          severity |-> MaxSeverity(r.severity, severity)]
    ELSE r

\* sanitizeContent: normalizeText, the base patterns in their order, the
\* strict patterns when strict, and cleanEmptyTags when something changed.
SanitizeContent(content, strict) ==
    LET r0 == [sanitized |-> NormalizeText(content), threats |-> <<>>,
               modified |-> FALSE, severity |-> "low"]
        r1 == ApplyPattern(r0, OverrideMatches(r0.sanitized),
                           ReplaceOverride(r0.sanitized),
                           "task_override", "critical")
        r2 == ApplyPattern(r1, TagMatches(r1.sanitized),
                           RemoveTags(r1.sanitized),
                           "prompt_injection", "high")
        r3 == IF strict
              THEN ApplyPattern(r2, PhoneMatches(r2.sanitized),
                                RedactPhones(r2.sanitized),
                                "sensitive_data", "medium")
              ELSE r2
    IN IF r3.modified
       THEN [r3 EXCEPT !.sanitized = CleanEmptyTags(@)]
       ELSE r3

NoSanitization ==
    [sanitized |-> <<>>, threats |-> <<"none">>, modified |-> FALSE,
     severity |-> "low"]

\* One text and the strict flag (config.strictSecurity), then the result of
\* the call, the securityEvents of the session, the events published on the
\* event bus and whether the call threw.
SanitizeCase(content, strict) ==
    [content |-> content, strict |-> strict, called |-> "none",
     result |-> NoSanitization, securityEvents |-> <<>>, published |-> <<>>,
     raised |-> FALSE]

NoSanitizeCase == [SanitizeCase(<<>>, FALSE) EXCEPT !.called = "idle"]

\* guardrails.sanitize(content, { strict }) is called.
Sanitize ==
    /\ sanitizeCase.called = "none"
    /\ sanitizeCase' = [sanitizeCase EXCEPT
                          !.called = "sanitize",
                          !.result = SanitizeContent(sanitizeCase.content,
                                                     sanitizeCase.strict)]
    /\ UNCHANGED <<sessionVars, retry, errorCase, backoffCase, bus, otherVars>>

\* The coordinator's sanitizeExternalContent, as executePlanner calls it:
\* with threats it pushes one SecurityEvent (the first threat, the highest
\* severity) and writes a console warning.  It calls no emitEvent and throws
\* nothing.
SanitizeExternalContent(case) ==
    LET result == SanitizeContent(case.content, case.strict)
    IN [case EXCEPT
          !.called = "sanitizeExternalContent",
          !.result = result,
          !.securityEvents =
              IF Len(result.threats) > 0
              THEN Append(@, [type |-> result.threats[1],
                              severity |-> result.severity,
                              blocked |-> result.modified])
              ELSE @]

SanitizeExternal ==
    /\ sanitizeCase.called = "none"
    /\ sanitizeCase' = SanitizeExternalContent(sanitizeCase)
    /\ UNCHANGED <<sessionVars, retry, errorCase, backoffCase, bus, otherVars>>

----------------------------------------------------------------------------
\* The worker's router (src/src/index.ts) and the namespace of session
\* objects it addresses.

\* Bound on the number of sessions created.
MaxSessions == 3

\* A durable object id is either unique (newUniqueId, numbered here in the
\* order of creation) or derived from a name (idFromName).  The platform
\* derives the id of a name by hashing the name: it is the same id for the
\* same name, and never a unique id.  A string is given by its digits: n > 0
\* for the hexadecimal string of unique id n, 0 for any other string.
NewUniqueId(n) == [kind |-> "unique", key |-> n]
IdFromName(name) == [kind |-> "named", key |-> name.digits]

\* id.toString() of a unique id.
IdToString(id) == [digits |-> id.key]

\* A session id no create has returned.
UnknownName == [digits |-> 0]

\* The per-session routes that read request.json() before they look up the
\* object, and those that do not read a body.
BodyRoutes == {"execute", "follow-up", "action-result", "state"}
PlainRoutes == {"next-action", "pause", "resume", "cancel"}

NoResponse ==
    [route |-> "none", name |-> UnknownName, wellFormed |-> TRUE,
     status |-> 0, error |-> "none"]

\* No session object is initialised and no request was answered.
EmptyNamespace ==
    [objects |-> {}, sessions |-> <<>>, response |-> NoResponse]

\* handleError: status 500 with the message of the error.
HandleError(route, name) ==
    [route |-> route, name |-> name, wellFormed |-> FALSE,
     status |-> 500, error |-> "Unexpected token"]

\* POST /api/sessions/create: a new unique id, /init on its object, and the
\* sessionId that handleInit returns (this.ctx.id.toString()).
CreateSession(wellFormed) ==
    /\ Len(router.sessions) < MaxSessions
    /\ LET id == NewUniqueId(Len(router.sessions) + 1)
           sessionId == IdToString(id)
       IN router' =
            IF wellFormed
            THEN [objects |-> router.objects \cup {id},
                  sessions |-> Append(router.sessions, sessionId),
                  response |-> [route |-> "create", name |-> sessionId,
                                wellFormed |-> TRUE, status |-> 200,
                                error |-> "none"]]
            ELSE [router EXCEPT !.response = HandleError("create", UnknownName)]
    /\ UNCHANGED <<sessionVars, retry, errorCase, backoffCase, bus, sanitizeCase,
                   vocabCase, loop>>

\* What the session object with this id answers: 400 unless it went through
\* /init (loadState finds nothing in the storage of a new object).  What an
\* initialised session answers is left at 200.
ObjectResponse(objects, id, route, name) ==
    IF id \in objects
    THEN [route |-> route, name |-> name, wellFormed |-> TRUE,
          status |-> 200, error |-> "none"]
    ELSE [route |-> route, name |-> name, wellFormed |-> TRUE,
          status |-> 400, error |-> "Session not initialized"]

\* A per-session route: the body is parsed where the route has one, the
\* object is looked up with idFromName(sessionId), and its answer is passed on.
RouteResponse(objects, route, name, wellFormed) ==
    IF route \in BodyRoutes /\ ~wellFormed
    THEN HandleError(route, name)
    ELSE ObjectResponse(objects, IdFromName(name), route, name)

\* The session ids a client can put in the path.
Names == {router.sessions[i] : i \in 1..Len(router.sessions)} \cup {UnknownName}

SessionRoute(route, name, wellFormed) ==
    /\ route \in PlainRoutes => wellFormed
    /\ router' = [router EXCEPT
                    !.response = RouteResponse(router.objects, route, name,
                                               wellFormed)]
    /\ UNCHANGED <<sessionVars, retry, errorCase, backoffCase, bus, sanitizeCase,
                   vocabCase, loop>>

----------------------------------------------------------------------------
\* handleInit: the session right after /init.
InitialSessionState ==
    [tasks |-> <<>>,
     currentTaskIndex |-> -1,
     stepCount |-> 0,
     executionState |-> "idle",
     actionHistory |-> <<>>,
     plannerHistoryLen |-> 0,
     metrics |-> [totalSteps |-> 0, successfulActions |-> 0,
                  failedActions |-> 0, llmCalls |-> 0]]

SessionInit ==
    /\ sessionState = InitialSessionState
    /\ actionQueue = <<>>
    /\ coordinator = FALSE
    /\ pending = EmptyBag
    /\ delivered = <<>>
    /\ inFlight = NoAction
    /\ resultCount = 0

\* No planner response is on its way through a queue.
NoVocabCase ==
    [toolsEnabled |-> {},
     output |-> [taskComplete |-> TRUE, nextAction |-> Undefined],
     pc |-> "idle", actionQueue |-> <<>>, action |-> NoAction]

\* handleInit of src/session.ts: the session of the loop variant right after
\* /init, with the fields of the object itself (no coordinator, no
\* executionPromise, an empty action queue).  queued is the length of the
\* action queue; runs holds the activations of executeTask.
InitialLoopSession ==
    [tasks |-> <<>>,
     currentTaskIndex |-> -1,
     executionState |-> "idle",
     stepCount |-> 0,
     consecutiveFailures |-> 0,
     currentAction |-> FALSE,
     queued |-> 0,
     coordinator |-> FALSE,
     executionPromise |-> FALSE,
     runs |-> <<>>]

IdleRouterVocabularyLoop ==
    /\ router = EmptyNamespace
    /\ vocabCase = NoVocabCase
    /\ loop = InitialLoopSession

\* The utilities that a specification does not exercise.
IdleBackoffBusSanitizer ==
    /\ backoffCase = NoBackoffCase
    /\ bus = NoBus
    /\ sanitizeCase = NoSanitizeCase
    /\ IdleRouterVocabularyLoop

Init ==
    /\ SessionInit
    /\ retry = NoRetryRun
    /\ errorCase = NoErrorCase
    /\ IdleBackoffBusSanitizer

\* this.sessionState.tasks[this.sessionState.currentTaskIndex] is defined.
HasCurrentTask(ss) ==
    ss.currentTaskIndex >= 0 /\ ss.currentTaskIndex < Len(ss.tasks)

\* currentTask.status = st, when there is a current task.
SetCurrentStatus(ss, st) ==
    IF HasCurrentTask(ss)
    THEN [ss EXCEPT !.tasks[ss.currentTaskIndex + 1].status = st]
    ELSE ss

\* A planNextStep that lets the counter pass the cap by one: it compares
\* with > where the code compares with >=.
PlanNextStepLate(ss, coord, origin) ==
    IF ~coord
    THEN [ss |-> ss, spawned |-> EmptyBag]
    ELSE IF \/ ~HasCurrentTask(ss)
            \/ ss.executionState = "paused"
            \/ ss.executionState = "completed"
    THEN [ss |-> ss, spawned |-> EmptyBag]
    ELSE IF ss.stepCount > MaxSteps
    THEN [ss |-> [SetCurrentStatus(ss, "failed") EXCEPT !.executionState = "error"],
          spawned |-> EmptyBag]
    ELSE [ss |-> [ss EXCEPT !.stepCount = @ + 1,
                            !.metrics.totalSteps = @ + 1,
                            !.executionState = "planning"],
          spawned |-> SetToBag({[task |-> ss.currentTaskIndex,
                                 origin |-> origin]})]

\* A planNextStep that counts a step only for the cycle execute starts.
PlanNextStepCountingExecutes(ss, coord, origin) ==
    IF ~coord
    THEN [ss |-> ss, spawned |-> EmptyBag]
    ELSE IF \/ ~HasCurrentTask(ss)
            \/ ss.executionState = "paused"
            \/ ss.executionState = "completed"
    THEN [ss |-> ss, spawned |-> EmptyBag]
    ELSE IF ss.stepCount >= MaxSteps
    THEN [ss |-> [SetCurrentStatus(ss, "failed") EXCEPT !.executionState = "error"],
          spawned |-> EmptyBag]
    ELSE [ss |-> [ss EXCEPT !.stepCount = IF origin = "execute" THEN @ + 1 ELSE @,
                            !.metrics.totalSteps = @ + 1,
                            !.executionState = "planning"],
          spawned |-> SetToBag({[task |-> ss.currentTaskIndex,
                                 origin |-> origin]})]

\* planNextStep up to its first suspension.  Gives the session state it leaves
\* and the call it suspends in runPlanner, if it gets that far.
PlanNextStep(ss, coord, origin) ==
    IF ~coord
    THEN [ss |-> ss, spawned |-> EmptyBag]
    ELSE IF \/ ~HasCurrentTask(ss)
            \/ ss.executionState = "paused"
            \/ ss.executionState = "completed"
    THEN [ss |-> ss, spawned |-> EmptyBag]
    ELSE IF ss.stepCount >= MaxSteps
    THEN [ss |-> [SetCurrentStatus(ss, "failed") EXCEPT !.executionState = "error"],
          spawned |-> EmptyBag]
    ELSE [ss |-> [ss EXCEPT !.stepCount = @ + 1,
                            !.metrics.totalSteps = @ + 1,
                            !.executionState = "planning"],
          spawned |-> SetToBag({[task |-> ss.currentTaskIndex,
                                 origin |-> origin]})]

----------------------------------------------------------------------------
\* Ingress handlers.

\* An execute that counts the steps of each task from zero.
HandleExecuteFromStepZero ==
    /\ Len(sessionState.tasks) < MaxTasks
    /\ LET s1 == [sessionState EXCEPT
                    !.tasks = Append(@, [status |-> "running"]),
                    !.currentTaskIndex = Len(sessionState.tasks),
                    !.stepCount = 0,
                    !.executionState = "planning"]
           r == PlanNextStep(s1, TRUE, "execute")
       IN /\ sessionState' = r.ss
          /\ pending' = pending (+) r.spawned
    /\ coordinator' = TRUE
    /\ UNCHANGED <<actionQueue, delivered, inFlight, resultCount>>
    /\ UNCHANGED utilVars

\* POST /execute: a new running task becomes the current one, the state
\* becomes planning, a coordinator is created and planNextStep is called.
HandleExecute ==
    /\ Len(sessionState.tasks) < MaxTasks
    /\ LET s1 == [sessionState EXCEPT
                    !.tasks = Append(@, [status |-> "running"]),
                    !.currentTaskIndex = Len(sessionState.tasks),
                    !.executionState = "planning"]
           r == PlanNextStep(s1, TRUE, "execute")
       IN /\ sessionState' = r.ss
          /\ pending' = pending (+) r.spawned
    /\ coordinator' = TRUE
    /\ UNCHANGED <<actionQueue, delivered, inFlight, resultCount>>
    /\ UNCHANGED utilVars

\* A follow-up that makes the new task the current one.
HandleFollowUpMakingCurrent ==
    /\ Len(sessionState.tasks) < MaxTasks
    /\ sessionState' = [sessionState EXCEPT
                          !.tasks = Append(@, [status |-> "pending"]),
                          !.currentTaskIndex = Len(sessionState.tasks)]
    /\ UNCHANGED <<actionQueue, coordinator, pending, delivered, inFlight,
                   resultCount>>
    /\ UNCHANGED utilVars

\* POST /follow-up: a new pending task is appended.
HandleFollowUp ==
    /\ Len(sessionState.tasks) < MaxTasks
    /\ sessionState' = [sessionState EXCEPT
                          !.tasks = Append(@, [status |-> "pending"])]
    /\ UNCHANGED <<actionQueue, coordinator, pending, delivered, inFlight,
                   resultCount>>
    /\ UNCHANGED utilVars

\* The action a next-action poll hands to the client: actionQueue.shift(),
\* unless the queue is empty or its head is undefined (`if (!action)`).
PolledAction(queue) ==
    IF queue = <<>> \/ Head(queue) = Undefined THEN NoAction ELSE Head(queue)

\* A poll that reads the head of the queue and leaves it there.
QueueAfterPeek(queue) ==
    queue

\* The queue a next-action poll leaves: shift() removes the head.
QueueAfterPoll(queue) ==
    IF queue = <<>> THEN queue ELSE Tail(queue)

\* GET /next-action.
HandleNextAction ==
    /\ actionQueue' = QueueAfterPoll(actionQueue)
    /\ LET action == PolledAction(actionQueue)
       IN IF action = NoAction
          THEN UNCHANGED <<delivered, inFlight>>
          ELSE /\ delivered' = Append(delivered, action)
               /\ inFlight' = action
    /\ UNCHANGED <<sessionState, coordinator, pending, resultCount>>
    /\ UNCHANGED utilVars

\* The action handleActionResult writes into the ActionRecord:
\* this.actionQueue[0] || { type: 'unknown', params: {} }.
RecordedAction(queue) ==
    IF queue = <<>> \/ Head(queue) = Undefined THEN UnknownAction ELSE Head(queue)

\* A handler that records a result only while the session waits for one.
RecordResultIfWaiting(ss, queue, success) ==
    IF ss.executionState = "waiting_for_browser"
    THEN [ss EXCEPT
            !.actionHistory = Append(@, [action |-> UnknownAction,
                                         success |-> success]),
            !.metrics.successfulActions = IF success THEN @ + 1 ELSE @,
            !.metrics.failedActions = IF success THEN @ ELSE @ + 1]
    ELSE ss

\* The session state after handleActionResult has appended the record and
\* counted the result, before it looks at executionState.  (The record's
\* step and timestamps are left out: nothing reads them.)
RecordResult(ss, queue, success) ==
    [ss EXCEPT
       !.actionHistory = Append(@, [action |-> RecordedAction(queue),
                                    success |-> success]),
       !.metrics.successfulActions = IF success THEN @ + 1 ELSE @,
       !.metrics.failedActions = IF success THEN @ ELSE @ + 1]

\* POST /action-result.
HandleActionResult(success) ==
    /\ LET s1 == RecordResult(sessionState, actionQueue, success)
           r == IF s1.executionState = "waiting_for_browser"
                THEN PlanNextStep([s1 EXCEPT !.executionState = "executing"],
                                  coordinator, "action-result")
                ELSE [ss |-> s1, spawned |-> EmptyBag]
       IN /\ sessionState' = r.ss
          /\ pending' = pending (+) r.spawned
    /\ resultCount' = resultCount + 1
    /\ inFlight' = NoAction
    /\ UNCHANGED <<actionQueue, coordinator, delivered>>
    /\ UNCHANGED utilVars

\* POST /state: the browser state is replaced and the content cache is
\* refreshed.  Neither is read by the state machine, the queue or the
\* planning cycles, so nothing of the modelled state changes.
HandleUpdateState ==
    UNCHANGED vars

\* POST /pause.
HandlePause ==
    /\ sessionState' = [SetCurrentStatus(sessionState, "paused")
                          EXCEPT !.executionState = "paused"]
    /\ UNCHANGED <<actionQueue, coordinator, pending, delivered, inFlight,
                   resultCount>>
    /\ UNCHANGED utilVars

\* POST /resume.
HandleResume ==
    /\ IF sessionState.executionState = "paused"
       THEN LET s1 == [SetCurrentStatus(sessionState, "running")
                         EXCEPT !.executionState = "planning"]
                r == PlanNextStep(s1, coordinator, "resume")
            IN /\ sessionState' = r.ss
               /\ pending' = pending (+) r.spawned
       ELSE UNCHANGED <<sessionState, pending>>
    /\ UNCHANGED <<actionQueue, coordinator, delivered, inFlight, resultCount>>
    /\ UNCHANGED utilVars

\* POST /cancel.
HandleCancel ==
    /\ sessionState' = [SetCurrentStatus(sessionState, "cancelled")
                          EXCEPT !.executionState = "completed"]
    /\ actionQueue' = <<>>
    /\ UNCHANGED <<coordinator, pending, delivered, inFlight, resultCount>>
    /\ UNCHANGED utilVars

----------------------------------------------------------------------------
\* The rest of planNextStep, after runPlanner has returned or thrown.

\* What the planner's parsed response can be: a next action of some type,
\* no nextAction at all, or taskComplete.  Every response is a new object:
\* an action is identified by the number of the planner record it came with.
PlannerOutputs(ss) ==
    {[taskComplete |-> FALSE,
      nextAction |-> [type |-> t, id |-> ss.plannerHistoryLen + 1]] :
        t \in ActionTypes}
    \cup {[taskComplete |-> FALSE, nextAction |-> Undefined],
          [taskComplete |-> TRUE, nextAction |-> Undefined]}

\* planNextStep from the planner's return to its end: the planner record is
\* appended, then the task is completed or the action is queued.
AfterPlanner(ss, c, out) ==
    LET s1 == [ss EXCEPT
                 !.metrics.llmCalls = @ + 1,
                 !.plannerHistoryLen = @ + 1]
    IN IF out.taskComplete
       THEN [s1 EXCEPT !.tasks[c.task + 1].status = "completed",
                       !.executionState = "completed"]
       ELSE [s1 EXCEPT !.executionState = "waiting_for_browser"]

\* The queue after planNextStep has handled the planner's output.
QueueAfterPlanner(queue, out) ==
    IF out.taskComplete THEN queue ELSE Append(queue, out.nextAction)

PlannerReturns(c, out) ==
    /\ BagIn(c, pending)
    /\ out \in PlannerOutputs(sessionState)
    /\ pending' = pending (-) SetToBag({c})
    /\ sessionState' = AfterPlanner(sessionState, c, out)
    /\ actionQueue' = QueueAfterPlanner(actionQueue, out)
    /\ UNCHANGED <<coordinator, delivered, inFlight, resultCount>>
    /\ UNCHANGED utilVars

\* runPlanner throws once the retry executor gives up: planNextStep rejects
\* and the caller's catch handler runs.  Only handleExecute's handler fails
\* the task; the handlers of handleActionResult and handleResume only log.
PlanningFailed(ss, c) ==
    LET s1 == [ss EXCEPT !.metrics.llmCalls = @ + 1]
    IN IF c.origin = "execute"
       THEN SetCurrentStatus([s1 EXCEPT !.executionState = "error"], "failed")
       ELSE s1

PlannerThrows(c) ==
    /\ BagIn(c, pending)
    /\ pending' = pending (-) SetToBag({c})
    /\ sessionState' = PlanningFailed(sessionState, c)
    /\ UNCHANGED <<actionQueue, coordinator, delivered, inFlight, resultCount>>
    /\ UNCHANGED utilVars

----------------------------------------------------------------------------
Next ==
    \/ HandleExecute
    \/ HandleFollowUp
    \/ HandleNextAction
    \/ \E success \in BOOLEAN :
          resultCount < MaxResults /\ HandleActionResult(success)
    \/ HandleUpdateState
    \/ HandlePause
    \/ HandleResume
    \/ HandleCancel
    \/ \E c \in BagToSet(pending) :
          \E out \in PlannerOutputs(sessionState) : PlannerReturns(c, out)
    \/ \E c \in BagToSet(pending) : PlannerThrows(c)

Spec == Init /\ [][Next]_vars

----------------------------------------------------------------------------
\* The host restarts while the session waits for the browser: the object is
\* constructed anew (session.ts:42-47: no coordinator, an empty actionQueue)
\* and the planNextStep calls suspended in the old instance are gone.  The
\* next handler's loadState reads the session back from storage: it was
\* saved when the state became waiting_for_browser (session.ts:279), and the
\* handlers that can run in that state without leaving it save what they
\* change, so what is read back is the session as it is.  (A planner call
\* that failed since then is missing from metrics.llmCalls, which nothing
\* reads.)
HostRestarts ==
    /\ sessionState.executionState = "waiting_for_browser"
    /\ actionQueue' = <<>>
    /\ coordinator' = FALSE
    /\ pending' = EmptyBag
    /\ UNCHANGED <<sessionState, delivered, inFlight, resultCount>>
    /\ UNCHANGED utilVars

RestartNext ==
    \/ Next
    \/ HostRestarts

RestartSpec == Init /\ [][RestartNext]_vars

----------------------------------------------------------------------------
\* The session driven by a browser client that follows the protocol: it posts
\* one action-result for each action a poll delivered, and nothing else.
\* The LLM call of every planning cycle ends, the client keeps polling and
\* reporting, and a paused session is resumed or cancelled.
ClientReports ==
    \E success \in BOOLEAN : inFlight # NoAction /\ HandleActionResult(success)

PlannerEnds ==
    \/ \E c \in BagToSet(pending) :
          \E out \in PlannerOutputs(sessionState) : PlannerReturns(c, out)
    \/ \E c \in BagToSet(pending) : PlannerThrows(c)

ClientPolls ==
    actionQueue # <<>> /\ HandleNextAction

PauseEnds ==
    sessionState.executionState = "paused" /\ (HandleResume \/ HandleCancel)

NextFair ==
    \/ HandleExecute
    \/ HandleFollowUp
    \/ ClientPolls
    \/ ClientReports
    \/ HandlePause
    \/ HandleResume
    \/ HandleCancel
    \/ PlannerEnds

FairSpec ==
    /\ Init
    /\ [][NextFair]_vars
    /\ WF_vars(PlannerEnds)
    /\ WF_vars(ClientPolls)
    /\ WF_vars(ClientReports)
    /\ WF_vars(PauseEnds)

----------------------------------------------------------------------------
\* One planner response from planNextStep's enqueue to the next-action poll,
\* in a session whose config.toolsEnabled is some set of tool types.

\* Tool types a config can enable, and the types the LLM's JSON can carry in
\* nextAction.type: any string, here the tool types and one more.
ToolTypes == {"click", "navigate", "wait"}
LlmTypes == ToolTypes \cup {"hover"}

VocabOutputs ==
    {[taskComplete |-> FALSE, nextAction |-> [type |-> t, id |-> 1]] :
        t \in LlmTypes}
    \cup {[taskComplete |-> FALSE, nextAction |-> Undefined],
          [taskComplete |-> TRUE, nextAction |-> Undefined]}

VocabCase(toolsEnabled, output) ==
    [NoVocabCase EXCEPT !.toolsEnabled = toolsEnabled, !.output = output,
                        !.pc = "planned"]

\* planNextStep after runPlanner has returned: the enqueue.
VocabPlannerReturns ==
    /\ vocabCase.pc = "planned"
    /\ vocabCase' = [vocabCase EXCEPT
                        !.pc = "queued",
                        !.actionQueue = QueueAfterPlanner(@, vocabCase.output)]
    /\ UNCHANGED <<sessionVars, retry, errorCase, backoffCase, bus, sanitizeCase,
                   router, loop>>

\* handleNextAction.
VocabNextAction ==
    /\ vocabCase.pc = "queued"
    /\ vocabCase' = [vocabCase EXCEPT
                        !.pc = "polled",
                        !.action = PolledAction(vocabCase.actionQueue),
                        !.actionQueue = QueueAfterPoll(@)]
    /\ UNCHANGED <<sessionVars, retry, errorCase, backoffCase, bus, sanitizeCase,
                   router, loop>>

----------------------------------------------------------------------------
\* The session of src/session.ts.  Its executeTask is a loop: every
\* planningInterval-th iteration it runs the planner, every iteration it
\* runs the navigator and queues the navigator's actions, then it counts the
\* step.  The loop suspends in the planner's LLM call, in the navigator's LLM
\* call and in the persistState at the end of an iteration; a handler runs
\* between two of these.

\* config.maxSteps, config.planningInterval, config.maxActionsPerStep and
\* config.maxFailures of the modelled session (DEFAULT_CONFIG: 50, 3, 3, 3).
LoopMaxSteps == 3
PlanningInterval == 2
MaxActionsPerStep == 1
LoopMaxFailures == 2
\* Bound on the number of actions in one navigator response, and on the
\* number of tasks.
MaxLlmActions == 2
MaxLoopTasks == 2

LoopHasCurrentTask(s) ==
    s.currentTaskIndex >= 0 /\ s.currentTaskIndex < Len(s.tasks)

LoopSetCurrentStatus(s, st) ==
    IF LoopHasCurrentTask(s)
    THEN [s EXCEPT !.tasks[s.currentTaskIndex + 1] = st]
    ELSE s

\* executeTask from the head of its while loop to the next suspension, for
\* activation r: the step cap, the checks of the execution state, then
\* runPlanner or runNavigator up to the LLM call.
LoopHead(s, r) ==
    LET run == s.runs[r]
    IN IF run.step >= LoopMaxSteps
       THEN [s EXCEPT !.executionState = "failed",
                      !.tasks[run.task + 1] = "failed",
                      !.runs[r].pc = "ended"]
       ELSE IF s.executionState \in {"paused", "completed", "failed"}
       THEN [s EXCEPT !.runs[r].pc = "ended"]
       ELSE IF run.step % PlanningInterval = 0
       THEN [s EXCEPT !.executionState = "planning",
                      !.runs[r].pc = "runPlanner"]
       ELSE [s EXCEPT !.executionState = "executing",
                      !.runs[r].pc = "runNavigator"]

\* executeTask as a handler calls it: nothing without a coordinator,
\* otherwise a new activation that runs to its first suspension.
ExecuteTask(s) ==
    IF ~s.coordinator \/ ~LoopHasCurrentTask(s)
    THEN s
    ELSE LoopHead([s EXCEPT !.runs = Append(@, [task |-> s.currentTaskIndex,
                                                 step |-> 0, pc |-> "head"])],
                  Len(s.runs) + 1)

\* `if (!this.executionPromise) this.executionPromise = this.executeTask()`.
ExecuteTaskOnce(s) ==
    IF s.executionPromise
    THEN s
    ELSE [ExecuteTask(s) EXCEPT !.executionPromise = TRUE]

loopFrame == <<sessionVars, retry, errorCase, backoffCase, bus, sanitizeCase,
               router, vocabCase>>

\* POST /execute.
LoopExecute ==
    /\ Len(loop.tasks) < MaxLoopTasks
    /\ loop' = ([ExecuteTask([loop EXCEPT
                                 !.tasks = Append(@, "running"),
                                 !.currentTaskIndex = Len(loop.tasks),
                                 !.executionState = "planning",
                                 !.coordinator = TRUE])
                   EXCEPT !.executionPromise = TRUE])
    /\ UNCHANGED loopFrame

\* POST /follow-up.
LoopFollowUp ==
    /\ Len(loop.tasks) < MaxLoopTasks
    /\ loop' = (ExecuteTaskOnce([loop EXCEPT
                                    !.tasks = Append(@, "running"),
                                    !.currentTaskIndex = Len(loop.tasks),
                                    !.executionState = "planning"]))
    /\ UNCHANGED loopFrame

\* GET /next-action.
LoopGetNextAction ==
    /\ loop' = (IF loop.queued > 0
                THEN [loop EXCEPT !.queued = @ - 1,
                                  !.currentAction = TRUE,
                                  !.executionState = "waiting_for_result"]
                ELSE loop)
    /\ UNCHANGED loopFrame

\* POST /action-result.
LoopActionResult(success) ==
    /\ loop' = (
         IF ~loop.currentAction
         THEN loop
         ELSE LET s1 == IF success
                        THEN [loop EXCEPT !.consecutiveFailures = 0]
                        ELSE IF loop.consecutiveFailures + 1 >= LoopMaxFailures
                        THEN [LoopSetCurrentStatus(loop, "failed") EXCEPT
                                 !.consecutiveFailures = @ + 1,
                                 !.executionState = "failed"]
                        ELSE [loop EXCEPT !.consecutiveFailures = @ + 1]
                  s2 == [s1 EXCEPT !.currentAction = FALSE]
              IN IF s2.executionState = "waiting_for_result"
                 THEN ExecuteTaskOnce([s2 EXCEPT !.executionState = "planning"])
                 ELSE s2)
    /\ UNCHANGED loopFrame

\* POST /pause.
LoopPause ==
    /\ loop' = ([LoopSetCurrentStatus(loop, "paused") EXCEPT
                 !.executionState = "paused"])
    /\ UNCHANGED loopFrame

\* POST /resume.
LoopResume ==
    /\ loop' = (IF loop.executionState = "paused"
             THEN ExecuteTaskOnce([LoopSetCurrentStatus(loop, "running") EXCEPT
                                      !.executionState = "planning"])
             ELSE loop)
    /\ UNCHANGED loopFrame

\* POST /cancel.
LoopCancel ==
    /\ loop' = ([LoopSetCurrentStatus(loop, "cancelled") EXCEPT
                 !.executionState = "completed",
                 !.queued = 0])
    /\ UNCHANGED loopFrame

\* runNavigator up to the navigator's LLM call.
RunNavigator(s, r) ==
    [s EXCEPT !.executionState = "executing",
              !.runs[r].pc = "runNavigator"]

\* The planner's LLM call of activation r returns; done is lastPlan.done.
LoopPlannerReturns(r, done) ==
    /\ loop.runs[r].pc = "runPlanner"
    /\ loop' = (IF done
                THEN [loop EXCEPT
                         !.executionState = "completed",
                         !.tasks[loop.runs[r].task + 1] = "completed",
                         !.runs[r].pc = "ended"]
                ELSE RunNavigator(loop, r))
    /\ UNCHANGED loopFrame

\* The navigator's LLM call of activation r returns n actions (none when
\* the call failed): all of them are pushed on the queue, the step is
\* counted, and the loop suspends in persistState.
LoopNavigatorReturns(r, n) ==
    /\ loop.runs[r].pc = "runNavigator"
    /\ loop' = ([loop EXCEPT
                    !.queued = @ + n,
                    !.runs[r].step = @ + 1,
                    !.stepCount = loop.runs[r].step + 1,
                    !.runs[r].pc = "persistState"])
    /\ UNCHANGED loopFrame

\* persistState is done: the next iteration.
LoopContinues(r) ==
    /\ loop.runs[r].pc = "persistState"
    /\ loop' = (LoopHead(loop, r))
    /\ UNCHANGED loopFrame

----------------------------------------------------------------------------
\* executeWithRetry run on every operation of Operations.
RetryInit ==
    /\ SessionInit
    /\ retry \in {RetryRun(operation) : operation \in Operations}
    /\ errorCase = NoErrorCase
    /\ IdleBackoffBusSanitizer

RetryNext ==
    \/ OperationCalled
    \/ BackoffElapses
    \/ RunPlannerFinally

RetrySpec == RetryInit /\ [][RetryNext]_vars

\* The error-handling functions applied to every message of Messages, with
\* every context and every pair of attempt counts up to MaxAttempts.
ErrorInit ==
    /\ SessionInit
    /\ retry = NoRetryRun
    /\ IdleBackoffBusSanitizer
    /\ errorCase \in {ErrorCase(message, context, currentAttempt, maxAttempts) :
                        message \in Messages, context \in Contexts,
                        currentAttempt \in 0..MaxAttempts,
                        maxAttempts \in 0..MaxAttempts}

ErrorNext ==
    \/ Categorize
    \/ BuildContext
    \/ DetermineRecovery

ErrorSpec == ErrorInit /\ [][ErrorNext]_vars

\* calculateBackoff on every strategy of Strategies and every attempt up to
\* the strategy's maxRetries.
BackoffInit ==
    /\ SessionInit
    /\ retry = NoRetryRun
    /\ errorCase = NoErrorCase
    /\ backoffCase \in {BackoffCase(strategy, attempt) :
                          strategy \in Strategies, attempt \in 1..MaxRetriesTried}
    /\ backoffCase.attempt <= backoffCase.strategy.maxRetries
    /\ bus = NoBus
    /\ sanitizeCase = NoSanitizeCase
    /\ IdleRouterVocabularyLoop

BackoffNext == Backoff

BackoffSpec == BackoffInit /\ [][BackoffNext]_vars

\* The event bus with listeners coming and going while events are emitted.
BusInit == Init

BusNext ==
    \/ \E l \in Subscribers : HandleEventStream(l)
    \/ \E type \in EventTypes : Emit(type)
    \/ \E l \in Subscribers : ClientDisconnects(l)

BusSpec == BusInit /\ [][BusNext]_vars

\* The sanitizer on every text of Texts, strict and not.
SanitizeInit ==
    /\ SessionInit
    /\ retry = NoRetryRun
    /\ errorCase = NoErrorCase
    /\ backoffCase = NoBackoffCase
    /\ bus = NoBus
    /\ sanitizeCase \in {SanitizeCase(content, strict) :
                           content \in Texts, strict \in BOOLEAN}
    /\ IdleRouterVocabularyLoop

SanitizeNext ==
    \/ Sanitize
    \/ SanitizeExternal

SanitizeSpec == SanitizeInit /\ [][SanitizeNext]_vars

\* The router: sessions are created and the per-session routes are called
\* with the session ids create returned, or with an unknown one.
RouterInit == Init

RouterNext ==
    \/ \E wellFormed \in BOOLEAN : CreateSession(wellFormed)
    \/ \E route \in BodyRoutes \cup PlainRoutes : \E name \in Names :
          \E wellFormed \in BOOLEAN : SessionRoute(route, name, wellFormed)

RouterSpec == RouterInit /\ [][RouterNext]_vars

\* Every planner response in a session of every toolsEnabled.
VocabInit ==
    /\ SessionInit
    /\ retry = NoRetryRun
    /\ errorCase = NoErrorCase
    /\ backoffCase = NoBackoffCase
    /\ bus = NoBus
    /\ sanitizeCase = NoSanitizeCase
    /\ router = EmptyNamespace
    /\ loop = InitialLoopSession
    /\ vocabCase \in {VocabCase(toolsEnabled, output) :
                        toolsEnabled \in SUBSET ToolTypes,
                        output \in VocabOutputs}

VocabNext ==
    \/ VocabPlannerReturns
    \/ VocabNextAction

VocabSpec == VocabInit /\ [][VocabNext]_vars

\* The loop variant under every handler and every LLM outcome.
LoopInit == Init

LoopNext ==
    \/ LoopExecute
    \/ LoopFollowUp
    \/ LoopGetNextAction
    \/ \E success \in BOOLEAN : LoopActionResult(success)
    \/ LoopPause
    \/ LoopResume
    \/ LoopCancel
    \/ \E r \in 1..Len(loop.runs) :
          \E done \in BOOLEAN : LoopPlannerReturns(r, done)
    \/ \E r \in 1..Len(loop.runs) :
          \E n \in 0..MaxLlmActions : LoopNavigatorReturns(r, n)
    \/ \E r \in 1..Len(loop.runs) : LoopContinues(r)

LoopSpec == LoopInit /\ [][LoopNext]_vars

----------------------------------------------------------------------------
\* Shorthands of the properties below.
State == sessionState.executionState

CurrentStatus ==
    IF HasCurrentTask(sessionState)
    THEN sessionState.tasks[sessionState.currentTaskIndex + 1].status
    ELSE "none"

PlannerReturnsAction ==
    \E c \in BagToSet(pending) : \E out \in PlannerOutputs(sessionState) :
        ~out.taskComplete /\ PlannerReturns(c, out)

PlannerReturnsComplete ==
    \E c \in BagToSet(pending) : \E out \in PlannerOutputs(sessionState) :
        out.taskComplete /\ PlannerReturns(c, out)

PlannerThrowsSome ==
    \E c \in BagToSet(pending) : PlannerThrows(c)

ActionResultStep ==
    \E success \in BOOLEAN : HandleActionResult(success)

\* A change of executionState along an edge of the transition table, made by
\* the edge's trigger.  A handler that assigns the state twice in one turn
\* (planNextStep running inside handleExecute, handleActionResult or
\* handleResume) is read as taking both edges.
TableEdge ==
    \/ /\ HandleExecute
       /\ State = "idle"
       /\ State' \in {"planning", "error"}
    \/ /\ PlannerReturnsAction
       /\ State = "planning"
       /\ State' = "waiting_for_browser"
    \/ /\ PlannerReturnsComplete
       /\ State = "planning"
       /\ State' = "completed"
    \/ /\ PlannerThrowsSome
       /\ State = "planning"
       /\ State' = "error"
    \/ /\ HandleNextAction
       /\ State = "waiting_for_browser"
       /\ State' = "executing"
    \/ /\ ActionResultStep
       /\ State \in {"waiting_for_browser", "executing"}
       /\ State' \in {"planning", "error"}
    \/ /\ HandlePause
       /\ State \notin TerminalStates
       /\ State' = "paused"
    \/ /\ HandleResume
       /\ State = "paused"
       /\ State' \in {"planning", "error"}
    \/ /\ HandleCancel
       /\ State \notin TerminalStates
       /\ State' = "completed"

\* C1: every change of executionState is an edge of the transition table,
\* made by that edge's trigger.
C1_OnlyTableEdges ==
    [][State' # State => TableEdge]_vars

\* C2: in every reachable state the action queue is empty or the session is
\* in WAITING_FOR_BROWSER or EXECUTING.
C2_QueueOnlyWhileWaiting ==
    actionQueue = <<>> \/ State \in {"waiting_for_browser", "executing"}

\* The session was cancelled while the planning cycle c of the current task
\* is still suspended in its LLM call.
CancelledDuring(c) ==
    /\ BagIn(c, pending)
    /\ c.task = sessionState.currentTaskIndex
    /\ State = "completed"
    /\ CurrentStatus = "cancelled"
    /\ actionQueue = <<>>

\* C3: when the LLM call of a planning cycle returns after the session was
\* cancelled, its result is discarded: the session stays COMPLETED, the queue
\* stays empty and the task stays cancelled.
C3_LateResultDiscarded ==
    [][\A c \in BagToSet(pending) : \A out \in PlannerOutputs(sessionState) :
          (CancelledDuring(c) /\ PlannerReturns(c, out))
              => /\ State' = "completed"
                 /\ actionQueue' = <<>>
                 /\ CurrentStatus' = "cancelled"]_vars

\* C4: from pause until resume (the current task's status is paused all the
\* while) no planner call starts, and once no planning cycle is in flight
\* the session is PAUSED.
C4_NoPlanningWhilePaused ==
    /\ [][(CurrentStatus = "paused" /\ CurrentStatus' = "paused")
             => sessionState'.stepCount = sessionState.stepCount]_vars
    /\ []((CurrentStatus = "paused" /\ pending = EmptyBag) => State = "paused")

\* C5: at most one planning cycle is in flight.
C5_OnePlanningCycle ==
    BagCardinality(pending) <= 1

\* C6: every task reaches one of the terminal statuses.
C6_EveryTaskTerminates ==
    \A i \in 1..MaxTasks :
        (i <= Len(sessionState.tasks))
            ~> (/\ i <= Len(sessionState.tasks)
                /\ sessionState.tasks[i].status \in TerminalStatuses)

\* The first pending task after the current one (0 when there is none).
NextPending ==
    LET later == {j \in 1..Len(sessionState.tasks) :
                    /\ j > sessionState.currentTaskIndex + 1
                    /\ sessionState.tasks[j].status = "pending"}
    IN IF later = {} THEN 0 ELSE CHOOSE j \in later : \A k \in later : j <= k

\* C7: when the current task terminates and a later pending task exists, the
\* session advances to it, sets it running and starts a planning cycle for it.
C7_AdvanceToPendingTask ==
    [][(/\ HasCurrentTask(sessionState)
        /\ CurrentStatus \notin TerminalStatuses
        /\ sessionState'.tasks[sessionState.currentTaskIndex + 1].status
              \in TerminalStatuses
        /\ NextPending # 0)
       => /\ sessionState'.currentTaskIndex = NextPending - 1
          /\ sessionState'.tasks[NextPending].status = "running"
          /\ \E c \in BagToSet(pending') : c.task = NextPending - 1]_vars

C9_RecordCarriesDeliveredAction ==
    [][(inFlight # NoAction /\ ActionResultStep)
          => sessionState'.actionHistory[Len(sessionState'.actionHistory)].action
                = inFlight]_vars

\* The actions the client received are planner actions, each received once,
\* in the order of their planner records (the order they were enqueued in),
\* and none of them is still queued.
DeliveredInOrder ==
    /\ \A i \in 1..Len(delivered) :
          /\ delivered[i].type \in ActionTypes
          /\ delivered[i].id \in 1..sessionState.plannerHistoryLen
    /\ \A i, j \in 1..Len(delivered) :
          i < j => delivered[i].id < delivered[j].id
    /\ \A i \in 1..Len(delivered) : \A k \in 1..Len(actionQueue) :
          actionQueue[k] # Undefined => delivered[i].id < actionQueue[k].id

\* C10: each enqueued action is returned by at most one poll, polls return
\* the actions in enqueue order, and a poll on an empty queue returns none.
C10_FifoDelivery ==
    /\ []DeliveredInOrder
    /\ [][(HandleNextAction /\ actionQueue = <<>>)
             => delivered' = delivered]_vars

\* Two actions were delivered by two polls.
C10_Witness ==
    Len(delivered) = 2

\* C11: while an action is in flight (a poll delivered it and its result has
\* not been posted yet) no planner call is started and no action is enqueued.
\* Stated for a session with one task, where resume and action-result are
\* the only ways left to start a planning cycle.
C11_QuietWhileInFlight ==
    [][(inFlight # NoAction /\ inFlight' = inFlight
        /\ Len(sessionState'.tasks) = 1)
          => /\ sessionState'.stepCount = sessionState.stepCount
             /\ Len(actionQueue') <= Len(actionQueue)]_vars

\* A handler step that calls planNextStep with a coordinator, a current task
\* and a state that is neither paused nor completed: a planning cycle starts.
CycleStarts ==
    /\ \/ HandleExecute
       \/ State = "waiting_for_browser" /\ ActionResultStep
       \/ State = "paused" /\ HandleResume
    /\ coordinator'
    /\ HasCurrentTask(sessionState')

\* The planner invocations started so far: the finished ones (llmCalls) and
\* the suspended ones.
PlannerInvocations ==
    sessionState.metrics.llmCalls + BagCardinality(pending)

\* C12: each planner invocation is counted by the step counter, which never
\* passes maxSteps.  A planning cycle that starts below the cap calls the
\* planner and fails no task; one that starts with the counter at the cap
\* calls no planner, fails the current task and sets the state to error.
C12_StepCap ==
    /\ [](/\ sessionState.stepCount <= MaxSteps
          /\ PlannerInvocations = sessionState.stepCount)
    /\ [][CycleStarts =>
            IF sessionState.stepCount < MaxSteps
            THEN /\ sessionState'.stepCount = sessionState.stepCount + 1
                 /\ BagCardinality(pending') = BagCardinality(pending) + 1
                 /\ State' = "planning"
                 /\ \A i \in 1..Len(sessionState.tasks) :
                       sessionState'.tasks[i].status = "failed"
                           => sessionState.tasks[i].status = "failed"
            ELSE /\ sessionState'.stepCount = sessionState.stepCount
                 /\ pending' = pending
                 /\ State' = "error"
                 /\ CurrentStatus' = "failed"]_vars

\* maxSteps planner invocations have run and all of them returned a response,
\* and the cycle after them failed the task: the state is error although no
\* planner call ever threw.
C12_Witness ==
    /\ sessionState.stepCount = MaxSteps
    /\ sessionState.plannerHistoryLen = MaxSteps
    /\ sessionState.metrics.llmCalls = MaxSteps
    /\ State = "error"
    /\ CurrentStatus = "failed"

\* The number of failed action-results since the last successful one, read
\* off the action history.
ConsecutiveFailures ==
    LET h == sessionState.actionHistory
        ok == {i \in 1..Len(h) : h[i].success}
    IN IF ok = {} THEN Len(h)
       ELSE Len(h) - (CHOOSE i \in ok : \A j \in ok : j <= i)

\* C13: the action-result that brings the number of consecutive failures to
\* maxFailures marks the running task failed and sets the state to error.
C13_FailsAtMaxFailures ==
    [][(/\ ActionResultStep
        /\ inFlight # NoAction
        /\ State = "waiting_for_browser"
        /\ CurrentStatus = "running"
        /\ ConsecutiveFailures' >= MaxFailures)
          => /\ State' = "error"
             /\ CurrentStatus' = "failed"]_vars

\* The last action-result answered a delivered action (no action has been
\* delivered since), it was a failure, and it brought the consecutive
\* failures to maxFailures.  The session has one task.
FailedOut ==
    /\ Len(sessionState.tasks) = 1
    /\ delivered # <<>>
    /\ inFlight = NoAction
    /\ ConsecutiveFailures >= MaxFailures

\* C14: once maxFailures consecutive failures have been reported for the
\* task, no further action is enqueued and no poll returns an action.
C14_NothingAfterMaxFailures ==
    [][(FailedOut /\ Len(sessionState'.tasks) = 1)
          => /\ Len(actionQueue') <= Len(actionQueue)
             /\ delivered' = delivered]_vars

\* C15: when the planning cycle of the current task, the only one in flight,
\* ends with a planner error while the session is PLANNING, the task is set
\* to failed and the state to error, whichever handler started the cycle.
C15_PlannerErrorFailsTask ==
    [][\A c \in BagToSet(pending) :
          (/\ PlannerThrows(c)
           /\ BagCardinality(pending) = 1
           /\ c.task = sessionState.currentTaskIndex
           /\ State = "planning")
              => /\ State' = "error"
                 /\ CurrentStatus' = "failed"]_vars

\* The planner call of cycle c ends with an error of the given category (the
\* one executeWithRetry attached to the EnhancedError it threw).  No catch
\* handler of the session reads the category: they are the same for all.
PlannerThrowsWith(c, category) ==
    /\ category \in ErrorCategories
    /\ PlannerThrows(c)

\* C16: when the planner call of the current task's only cycle fails with a
\* user_input_required error, the session becomes PAUSED and the task paused.
C16_UserInputPauses ==
    [][\A c \in BagToSet(pending) :
          (/\ PlannerThrowsWith(c, "user_input_required")
           /\ BagCardinality(pending) = 1
           /\ c.task = sessionState.currentTaskIndex
           /\ State = "planning")
              => /\ State' = "paused"
                 /\ CurrentStatus' = "paused"]_vars

\* The category buildErrorContext gives the error of the operation's i-th
\* invocation.
CategoryOfCall(operation, i) ==
    BuildErrorContext([message |-> operation[i].message]).category

\* Every failure of the operation is of a retryable category.
FailsRetryably(operation) ==
    \A i \in 1..Len(operation) :
        \/ operation[i].ok
        \/ CategoryOfCall(operation, i)
              \in DEFAULT_RETRY_STRATEGY.retryableCategories

\* The first invocation of the operation that succeeds (0 when none does).
FirstSuccess(operation) ==
    LET ok == {i \in 1..Len(operation) : operation[i].ok}
    IN IF ok = {} THEN 0 ELSE CHOOSE i \in ok : \A j \in ok : i <= j

\* C17: executeWithRetry on an operation that fails only retryably makes up
\* to 1 + maxRetries invocations: it returns the result of the first one
\* that succeeds and invokes no more, and it throws, with the category of the
\* last error, only when all 1 + maxRetries invocations have failed.
C17_RetriesUpToMaxRetries ==
    (retry.pc \in {"done", "settled"} /\ FailsRetryably(retry.operation))
        => LET first == FirstSuccess(retry.operation)
               all == 1 + DEFAULT_RETRY_STRATEGY.maxRetries
           IN IF first # 0
              THEN /\ retry.result.kind = "returned"
                   /\ retry.result.call = first
                   /\ retry.calls = first
              ELSE /\ retry.result.kind = "thrown"
                   /\ retry.calls = all
                   /\ retry.result.category
                         = CategoryOfCall(retry.operation, all)

TriggerTable ==
    [rate_limit |-> {"rate limit", "429"},
     network |-> {"network", "econnrefused", "fetch failed"},
     timeout |-> {"timeout", "timed out"},
     user_input_required |-> {"captcha", "verification", "login required",
                              "authentication"},
     fatal |-> {"forbidden", "unauthorized", "invalid session"}]

\* The rows of the table that have a trigger in the lower-cased message.
MatchedRows(message) ==
    {row \in DOMAIN TriggerTable :
        \E t \in TriggerTable[row] : Includes(ToLowerCase(message), t)}

\* C19: categorizeError gives a message with triggers of exactly one row of
\* the table the category of that row.
C19_ClassifiedByTable ==
    (/\ errorCase.category # "none"
     /\ Cardinality(MatchedRows(errorCase.error.message)) = 1)
        => errorCase.category \in MatchedRows(errorCase.error.message)

\* categorizeError gives a message with no trigger of the table the category
\* recoverable.
C19_OtherMessagesRecoverable ==
    (/\ errorCase.category # "none"
     /\ MatchedRows(errorCase.error.message) = {})
        => errorCase.category = "recoverable"

\* The recovery the mapping of the categories prescribes.
PrescribedRecovery(category, currentAttempt, maxAttempts) ==
    IF category = "user_input_required" THEN "pause"
    ELSE IF category = "fatal" THEN "abort"
    ELSE IF currentAttempt < maxAttempts THEN "retry"
    ELSE IF category = "recoverable" THEN "skip"
    ELSE "abort"

\* C20: determineRecoveryAction maps user_input_required to pause and fatal
\* to abort whatever the attempt counts; with the attempts exhausted it maps
\* rate_limit, network and timeout to abort and recoverable to skip, and
\* below the maximum it maps those four to retry.
C20_RecoveryByCategory ==
    errorCase.recovery # NoRecovery
        => errorCase.recovery.type
              = PrescribedRecovery(errorCase.errorContext.category,
                                   errorCase.currentAttempt,
                                   errorCase.maxAttempts)

C22_LlmCallsCountAttempts ==
    retry.pc = "settled" => retry.llmCalls = retry.calls

\* C23: a task whose status is completed, failed or cancelled keeps that
\* status in every later step.
C23_TerminalStatusFinal ==
    [][\A i \in 1..Len(sessionState.tasks) :
          sessionState.tasks[i].status \in TerminalStatuses
              => sessionState'.tasks[i].status = sessionState.tasks[i].status]_vars

\* C24: at most one task has the status running.
C24_OneRunningTask ==
    Cardinality({i \in 1..Len(sessionState.tasks) :
                    sessionState.tasks[i].status = "running"}) <= 1

----------------------------------------------------------------------------
\* The events each handler passes to emitEvent, in order, by type.

\* handleExecute: task_start, before planNextStep is called.  Neither the
\* step-cap branch of planNextStep nor the catch handler emits anything.
ExecuteEvents ==
    <<"task_start">>

\* planNextStep after runPlanner has returned.
PlannerReturnEvents(out) ==
    IF out.taskComplete
    THEN <<"plan_generated", "task_complete">>
    ELSE <<"plan_generated">>

\* planNextStep rejected: the catch handlers log, and handleExecute's also
\* marks the task failed; none calls emitEvent.
PlannerThrowEvents ==
    <<>>

\* handleActionResult.
ActionResultEvents ==
    <<"action_executed">>

\* handlePause.
PauseEvents ==
    <<"task_pause">>

\* handleResume, which does nothing unless the session is paused.
ResumeEvents(ss) ==
    IF ss.executionState = "paused" THEN <<"task_resume">> ELSE <<>>

\* handleCancel.
CancelEvents ==
    <<"task_cancel">>

----------------------------------------------------------------------------
\* The terminal statuses some task takes in this step.
NewTerminalStatuses ==
    {sessionState'.tasks[i].status : i \in
        {j \in 1..Len(sessionState'.tasks) :
            /\ sessionState'.tasks[j].status \in TerminalStatuses
            /\ \/ j > Len(sessionState.tasks)
               \/ sessionState.tasks[j].status # sessionState'.tasks[j].status}}

\* The event that announces a terminal status.
TerminalEvent(status) ==
    CASE status = "completed" -> "task_complete"
      [] status = "cancelled" -> "task_cancel"
      [] status = "failed" -> "task_error"

Types(events) ==
    {events[i] : i \in 1..Len(events)}

\* C26: the step in which a task takes a terminal status publishes the
\* matching event: task_complete, task_cancel, or task_error on failure.
C26_TerminalStatusPublished ==
    [][\A st \in NewTerminalStatuses :
          /\ HandleExecute => TerminalEvent(st) \in Types(ExecuteEvents)
          /\ ActionResultStep => TerminalEvent(st) \in Types(ActionResultEvents)
          /\ HandlePause => TerminalEvent(st) \in Types(PauseEvents)
          /\ HandleResume => TerminalEvent(st) \in Types(ResumeEvents(sessionState))
          /\ HandleCancel => TerminalEvent(st) \in Types(CancelEvents)
          /\ \A c \in BagToSet(pending) :
                /\ PlannerThrows(c) => TerminalEvent(st) \in Types(PlannerThrowEvents)
                /\ \A out \in PlannerOutputs(sessionState) :
                      PlannerReturns(c, out)
                          => TerminalEvent(st) \in Types(PlannerReturnEvents(out))]_vars

----------------------------------------------------------------------------
\* The events emitted after listener l subscribed, in emission order.
EmittedSince(l) ==
    SubSeq(bus.log, bus.since[l] + 1, Len(bus.log))

IsPrefix(s, t) ==
    Len(s) <= Len(t) /\ s = SubSeq(t, 1, Len(s))

\* C27: the stream of a subscriber holds the events emitted after it
\* subscribed, each once and in emission order, and none emitted before; a
\* subscriber whose client is still connected has all of them.
C27_EventsSinceSubscription ==
    \A l \in Subscribers :
        IF bus.since[l] = -1
        THEN bus.streams[l] = <<>>
        ELSE /\ IsPrefix(bus.streams[l], EmittedSince(l))
             /\ l \in bus.open => bus.streams[l] = EmittedSince(l)

\* A subscriber that came after the first event and has received two.
C27_Witness ==
    \E l \in Subscribers :
        /\ bus.since[l] >= 1
        /\ l \in bus.open
        /\ Len(bus.streams[l]) >= 2
        /\ bus.streams[l][1].seq = bus.since[l] + 1

----------------------------------------------------------------------------
\* C28: when sanitizeExternalContent finds a threat, a SecurityEvent with
\* the threat's type and the severity is appended to securityEvents, a
\* security_alert event with that severity is published, and nothing is
\* raised to the caller.
C28_ThreatLoggedAndPublished ==
    (/\ sanitizeCase.called = "sanitizeExternalContent"
     /\ Len(sanitizeCase.result.threats) > 0)
        => /\ \E k \in 1..Len(sanitizeCase.securityEvents) :
                 /\ sanitizeCase.securityEvents[k].type =
                        sanitizeCase.result.threats[1]
                 /\ sanitizeCase.securityEvents[k].severity =
                        sanitizeCase.result.severity
           /\ \E k \in 1..Len(sanitizeCase.published) :
                 /\ sanitizeCase.published[k].type = "security_alert"
                 /\ sanitizeCase.published[k].severity =
                        sanitizeCase.result.severity
           /\ ~sanitizeCase.raised

\* C29: the text sanitize returns has no match of a pattern of the active
\* family: the base patterns, and the strict ones when strict.
C29_NoActivePatternMatches ==
    sanitizeCase.called \in {"sanitize", "sanitizeExternalContent"}
        => /\ ~OverrideMatches(sanitizeCase.result.sanitized)
           /\ ~TagMatches(sanitizeCase.result.sanitized)
           /\ sanitizeCase.strict => ~PhoneMatches(sanitizeCase.result.sanitized)

----------------------------------------------------------------------------
\* Durable storage.  saveState puts the serialized session as it is at the
\* moment of the call; what a handler changes afterwards stays in memory
\* until the next saveState.

\* planNextStep takes its step-cap branch, the only one that calls saveState
\* before the first suspension.
PlanNextStepSaves(ss, coord) ==
    /\ coord
    /\ HasCurrentTask(ss)
    /\ ss.executionState \notin {"paused", "completed"}
    /\ ss.stepCount >= MaxSteps

\* The session in storage when handleExecute answers: saved once the task is
\* pushed, before planNextStep is called, and again by the step-cap branch.
StoredByExecute(ss) ==
    LET s1 == [ss EXCEPT
                 !.tasks = Append(@, [status |-> "running"]),
                 !.currentTaskIndex = Len(ss.tasks),
                 !.executionState = "planning"]
    IN IF PlanNextStepSaves(s1, TRUE)
       THEN PlanNextStep(s1, TRUE, "execute").ss
       ELSE s1

\* The session in storage when handleResume answers a paused session: saved
\* before planNextStep is called, and again by the step-cap branch.
StoredByResume(ss, coord) ==
    LET s1 == [SetCurrentStatus(ss, "running")
                 EXCEPT !.executionState = "planning"]
    IN IF PlanNextStepSaves(s1, coord)
       THEN PlanNextStep(s1, coord, "resume").ss
       ELSE s1

\* The fields of the session the comparison is about.
SessionBlob(ss) ==
    [executionState |-> ss.executionState,
     tasks |-> ss.tasks,
     stepCount |-> ss.stepCount,
     actionHistory |-> ss.actionHistory,
     plannerHistoryLen |-> ss.plannerHistoryLen]

\* C30: when execute or resume is acknowledged, the session in storage
\* equals the session in memory in executionState, tasks, stepCount, action
\* history and planner history.  (The other handlers and the end of a
\* planning cycle call saveState after their last assignment.)
C30_StorageEqualsMemory ==
    [][/\ HandleExecute
            => SessionBlob(StoredByExecute(sessionState))
                   = SessionBlob(sessionState')
       /\ (HandleResume /\ sessionState.executionState = "paused")
            => SessionBlob(StoredByResume(sessionState, coordinator))
                   = SessionBlob(sessionState')]_vars

----------------------------------------------------------------------------
\* The run of one task in two planning cycles, state by state: execute, the
\* planner returns action a, one next-action poll, one successful
\* action-result, the planner returns taskComplete.  cycle is the planning
\* cycle in flight, if any.
RunState(ss, queue, cycles, handed, flying, results) ==
    /\ sessionState = ss
    /\ actionQueue = queue
    /\ coordinator = TRUE
    /\ pending = cycles
    /\ delivered = handed
    /\ inFlight = flying
    /\ resultCount = results

FirstActions == {[type |-> t, id |-> 1] : t \in ActionTypes}

CycleOf(origin) == SetToBag({[task |-> 0, origin |-> origin]})

Executed ==
    [InitialSessionState EXCEPT
        !.tasks = <<[status |-> "running"]>>,
        !.currentTaskIndex = 0,
        !.stepCount = 1,
        !.executionState = "planning",
        !.metrics.totalSteps = 1]

Planned ==
    [Executed EXCEPT
        !.executionState = "waiting_for_browser",
        !.plannerHistoryLen = 1,
        !.metrics.llmCalls = 1]

\* The session after the successful action-result and the start of the
\* second cycle, with the record the handler wrote.
Reported(record) ==
    [Planned EXCEPT
        !.executionState = "planning",
        !.stepCount = 2,
        !.actionHistory = <<record>>,
        !.metrics.totalSteps = 2,
        !.metrics.successfulActions = 1]

Completed(record) ==
    [Reported(record) EXCEPT
        !.executionState = "completed",
        !.tasks = <<[status |-> "completed"]>>,
        !.plannerHistoryLen = 2,
        !.metrics.llmCalls = 2]

AfterExecute ==
    RunState(Executed, <<>>, CycleOf("execute"), <<>>, NoAction, 0)

AfterFirstPlan(a) ==
    RunState(Planned, <<a>>, EmptyBag, <<>>, NoAction, 0)

AfterPoll(a) ==
    RunState(Planned, <<>>, EmptyBag, <<a>>, a, 0)

AfterResult(a) ==
    \E record \in {[action |-> b, success |-> TRUE] :
                      b \in FirstActions \cup {UnknownAction}} :
        RunState(Reported(record), <<>>, CycleOf("action-result"), <<a>>,
                 NoAction, 1)

RunEnded(a) ==
    /\ pending = EmptyBag
    /\ actionQueue = <<>>
    /\ delivered = <<a>>
    /\ resultCount = 1
    /\ State = "completed"
    /\ sessionState.tasks = <<[status |-> "completed"]>>
    /\ sessionState.stepCount = 2
    /\ Len(sessionState.actionHistory) = 1
    /\ sessionState.metrics.successfulActions = 1
    /\ sessionState.metrics.failedActions = 0

\* C31: each step of that run leads to the next state of the run, and the
\* last one to the state completed with the task completed, stepCount 2,
\* one actionHistory record, successfulActions 1 and failedActions 0.
C31_OneActionRun ==
    [][/\ (Init /\ HandleExecute) => AfterExecute'
       /\ \A a \in FirstActions :
             /\ (AfterExecute /\ PlannerReturnsAction /\ actionQueue' = <<a>>)
                    => AfterFirstPlan(a)'
             /\ (AfterFirstPlan(a) /\ HandleNextAction) => AfterPoll(a)'
             /\ (AfterPoll(a) /\ HandleActionResult(TRUE)) => AfterResult(a)'
             /\ (AfterResult(a) /\ PlannerReturnsComplete) => RunEnded(a)']_vars

\* The end of the run, reached through its last step's source state.
C31_Witness ==
    \E a \in FirstActions :
        /\ RunEnded(a)
        /\ sessionState.plannerHistoryLen = 2
        /\ sessionState.metrics.llmCalls = 2
        /\ sessionState.metrics.totalSteps = 2
        /\ sessionState.actionHistory[1].success

----------------------------------------------------------------------------
\* The step of a follow-up: a task with status pending is appended.
FollowUpStep ==
    /\ Len(sessionState'.tasks) = Len(sessionState.tasks) + 1
    /\ sessionState'.tasks[Len(sessionState'.tasks)].status = "pending"

C36_NoMissingActionQueued ==
    \A i \in 1..Len(actionQueue) : actionQueue[i] # Undefined

----------------------------------------------------------------------------
\* An event is emitted in this step.
EmitStep ==
    Len(bus'.log) = Len(bus.log) + 1

----------------------------------------------------------------------------
\* C32: an action that next-action delivers has a type of
\* config.toolsEnabled.
C32_DeliveredTypeEnabled ==
    (vocabCase.pc = "polled" /\ vocabCase.action # NoAction)
        => vocabCase.action.type \in vocabCase.toolsEnabled

\* C38: a request whose body is not valid JSON is answered with a 4xx
\* status (and leaves the sessions as they were).
C38_MalformedBodyIs4xx ==
    ~router.response.wellFormed
        => /\ router.response.status >= 400
           /\ router.response.status <= 499

\* C40: a per-session route called with a session id that create returned
\* reaches the object that /init initialised: it is not answered
\* 'Session not initialized'.
C40_CreatedSessionReachable ==
    (/\ router.response.route \in BodyRoutes \cup PlainRoutes
     /\ \E i \in 1..Len(router.sessions) :
           router.sessions[i] = router.response.name)
        => router.response.error # "Session not initialized"

\* The step of a host restart: only a restart leaves the session without a
\* coordinator.
RestartStep ==
    coordinator /\ ~coordinator'

\* C39: a host restart while the session waits for the browser with an
\* action queued leaves that action for the next poll, and the session is
\* never waiting or executing with an empty queue, no planning cycle in
\* flight and no coordinator to start one.
C39_QueueSurvivesRestart ==
    /\ [][(RestartStep /\ actionQueue # <<>>)
             => PolledAction(actionQueue') = PolledAction(actionQueue)]_vars
    /\ [](~(/\ State \in {"waiting_for_browser", "executing"}
            /\ actionQueue = <<>>
            /\ pending = EmptyBag
            /\ ~coordinator))

----------------------------------------------------------------------------
\* The navigator of some activation returns in this step.
NavigatorStep ==
    \E r \in 1..Len(loop.runs) :
        /\ loop.runs[r].pc = "runNavigator"
        /\ loop'.runs[r].pc = "persistState"

\* C33: one iteration of the execution loop adds at most
\* config.maxActionsPerStep actions to the action queue.
C33_AtMostMaxActionsPerStep ==
    [][NavigatorStep => loop'.queued - loop.queued <= MaxActionsPerStep]_vars

\* An activation of executeTask that has not ended.
LoopAlive ==
    \E r \in 1..Len(loop.runs) : loop.runs[r].pc # "ended"

\* C34: the planner runs before step k of an activation exactly when k is
\* a multiple of planningInterval, and the loop goes on across pause and
\* resume and across action-results: while the task an execute started is
\* running and the session is neither paused nor finished, an activation
\* is alive.
C34_PlanningCadence ==
    /\ [][\A r \in 1..Len(loop'.runs) :
             /\ (loop'.runs[r].pc = "runPlanner" /\ loop' # loop
                 /\ (r > Len(loop.runs) \/ loop.runs[r].pc # "runPlanner"))
                    => loop'.runs[r].step % PlanningInterval = 0
             /\ (r <= Len(loop.runs) /\ loop.runs[r].pc = "persistState"
                 /\ loop'.runs[r].pc = "runNavigator")
                    => loop'.runs[r].step % PlanningInterval # 0]_vars
    /\ []((/\ LoopHasCurrentTask(loop)
           /\ \E r \in 1..Len(loop.runs) :
                 loop.runs[r].task = loop.currentTaskIndex
           /\ loop.tasks[loop.currentTaskIndex + 1] = "running"
           /\ loop.coordinator
           /\ loop.executionState \in {"planning", "executing"})
             => LoopAlive)

====
